---- MODULE Spec2Model ----
(***************************************************************************)
(* Model of src/highlight.rs of rustw: the semantic render pass            *)
(* (highlight + Highlighter), the shared markup emitter (write_span,       *)
(* push_char) and the overlay pass (custom_highlight + BasicHighlighter).  *)
(*                                                                         *)
(* The output buffer is a sequence of elements, one per Writer::string     *)
(* call; an element is the sequence of pieces written by the write! calls  *)
(* of that call, each piece tagged with the attribute it belongs to.       *)
(* Strings are sequences of chunks, a title is a sequence of characters.   *)
(***************************************************************************)
EXTENDS Integers, Sequences, FiniteSets, TLC

\* Longest token stream of one render pass.
MaxTokens == 2
\* Most overlay ranges registered before an overlay pass.
MaxSpans == 2

(***************************************************************************)
(* Option and Result values.                                               *)
(***************************************************************************)
None == <<>>
Some(v) == <<v>>
is_some(o) == Len(o) = 1
is_none(o) == Len(o) = 0

Ok(v) == [ok |-> TRUE, v |-> v]
Err == [ok |-> FALSE]
\* Result::ok(): the error value is dropped.
ok(r) == IF r.ok THEN Some(r.v) ELSE None

(***************************************************************************)
(* The external collaborators: lexer/classifier, codemap, filesystem,      *)
(* analysis backend.                                                       *)
(***************************************************************************)
\* rustdoc's Class values seen by the writer ("KeyWord" stands for every class
\* that has no arm of its own in Highlighter::string).
Classes == {"None", "Ident", "Op", "KeyWord"}

rustdoc_class(klass) ==
    CASE klass = "None" -> ""
      [] klass = "Ident" -> "ident"
      [] klass = "Op" -> "op"
      [] klass = "KeyWord" -> "kw"

\* (class, text) pairs the classifier hands to Writer::string.
TokenKinds ==
    { [klass |-> "None", text |-> " "],
      [klass |-> "Ident", text |-> "x"],
      [klass |-> "Op", text |-> "*"],
      [klass |-> "Op", text |-> "+"],
      [klass |-> "KeyWord", text |-> "fn"] }

\* Byte spans of tokens (TokenAndSpan.sp).
TokSpans == { [lo |-> 0, hi |-> 1], [lo |-> 2, hi |-> 3] }
TasValues == {None} \cup { Some(sp) : sp \in TokSpans }

\* File names handed to highlight() and the project root.
Files == {"a.rs", "b.rs"}
project_path == <<"/", "proj">>

\* The filemap of the pass: lines of two bytes each.
lookup_char_pos(file, pos) ==
    [file |-> file, line |-> (pos \div 2) + 1, col |-> pos % 2]

\* Path::canonicalize: the absolute path of the file, or an io::Error.
CanonicalPath(name) ==
    IF name = "a.rs" THEN <<"/", "proj", "a.rs">> ELSE <<"/", "ext", "b.rs">>
CanonResults(name) == {Ok(CanonicalPath(name)), Err}

\* analysis::Span
MkSpan(f, ls, cs, le, ce) ==
    [file_name |-> f, line_start |-> ls, column_start |-> cs,
     line_end |-> le, column_end |-> ce]

\* Definition spans the backend can answer goto_def with.
DefSpans ==
    { MkSpan(<<"/", "proj", "a.rs">>, 0, 0, 0, 1),
      MkSpan(<<"/", "ext", "b.rs">>, 1, 0, 1, 1) }

TypeText == <<"f", "<", ">", "\"">>
DocsText == <<"&", "'", "\n", "d">>
Ids == {7, 42}

\* One analysis backend: its answer to each of the six queries.
Backends ==
    [ goto_def : {Err} \cup { Ok(d) : d \in DefSpans },
      show_type : {Err, Ok(<<>>), Ok(TypeText)},
      docs : {Err, Ok(<<>>), Ok(DocsText)},
      doc_url : {Err, Ok(<<"http://doc/x">>)},
      src_url : {Err, Ok(<<"http://src/x">>)},
      id : {Err} \cup { Ok(i) : i \in Ids } ]

(***************************************************************************)
(* State.                                                                  *)
(***************************************************************************)
VARIABLES
    pc,          \* position of the entry point: "register", "running", "done", "panicked"
    file_name,   \* the file_name argument of the pass
    analysis,    \* the AnalysisHost handle of the pass
    buf,         \* Highlighter.buf / BasicHighlighter.buf
    path_cache,  \* Highlighter.path_cache
    spans,       \* BasicHighlighter.spans
    canonCalls,  \* instrumentation: canonicalize calls per raw file name
    tok          \* instrumentation: the arguments and locals of the last call

vars == <<pc, file_name, analysis, buf, path_cache, spans, canonCalls, tok>>

NoTok == [op |-> "none"]

(***************************************************************************)
(* Markup emitter.                                                         *)
(***************************************************************************)
Piece(a, v) == [a |-> a, v |-> v]

push_char(c) ==
    CASE c = ">" -> "&gt;"
      [] c = "<" -> "&lt;"
      [] c = "&" -> "&amp;"
      [] c = "'" -> "&#39;"
      [] c = "\"" -> "&quot;"
      [] c = "\n" -> "<br>"
      [] OTHER -> c

\* for c in s.chars() { push_char(buf, c) }
escape_title(s) == [i \in 1..Len(s) |-> push_char(s[i])]

write_span_swapped(b, klass, text, title, extra_class, id, link, doc_link, src_link, extra) ==
    LET p0 == <<Piece("class", <<rustdoc_class(klass)>>)>>
        p1 == IF is_some(extra_class) THEN Append(p0, Piece("extra_class", extra_class[1])) ELSE p0
        p2 == IF is_some(link) \/ is_some(doc_link) \/ is_some(src_link)
              THEN Append(p1, Piece("src_link", <<" src_link">>)) ELSE p1
        p3 == IF is_some(id) THEN Append(p2, Piece("id", id[1])) ELSE p2
        p4 == IF is_some(title) THEN Append(p3, Piece("title", escape_title(title[1]))) ELSE p3
        p5 == IF is_some(doc_link) THEN Append(p4, Piece("doc_url", doc_link[1])) ELSE p4
        p6 == IF is_some(link) THEN Append(p5, Piece("link", link[1])) ELSE p5
        p7 == IF is_some(src_link) THEN Append(p6, Piece("src_url", src_link[1])) ELSE p6
        p8 == IF is_some(extra) THEN Append(p7, Piece("extra", extra[1])) ELSE p7
    IN  Append(b, Append(p8, Piece("text", <<text>>)))

write_span(b, klass, text, title, extra_class, id, link, doc_link, src_link, extra) ==
    LET p0 == <<Piece("class", <<rustdoc_class(klass)>>)>>
        p1 == IF is_some(extra_class) THEN Append(p0, Piece("extra_class", extra_class[1])) ELSE p0
        p2 == IF is_some(link) \/ is_some(doc_link)
              THEN Append(p1, Piece("src_link", <<" src_link">>)) ELSE p1
        p3 == IF is_some(id) THEN Append(p2, Piece("id", id[1])) ELSE p2
        p4 == IF is_some(title) THEN Append(p3, Piece("title", escape_title(title[1]))) ELSE p3
        p5 == IF is_some(doc_link) THEN Append(p4, Piece("doc_url", doc_link[1])) ELSE p4
        p6 == IF is_some(src_link) THEN Append(p5, Piece("src_url", src_link[1])) ELSE p5
        p7 == IF is_some(link) THEN Append(p6, Piece("link", link[1])) ELSE p6
        p8 == IF is_some(extra) THEN Append(p7, Piece("extra", extra[1])) ELSE p7
    IN  Append(b, Append(p8, Piece("text", <<text>>)))

(***************************************************************************)
(* Highlighter.                                                            *)
(***************************************************************************)
\* Path::strip_prefix(base).ok().unwrap_or(path)
strip_prefix_or(path, base) ==
    IF Len(path) >= Len(base) /\ SubSeq(path, 1, Len(base)) = base
    THEN SubSeq(path, Len(base) + 1, Len(path))
    ELSE path

\* Path::to_str(): components joined by the separator.
RECURSIVE join(_)
join(p) ==
    IF Len(p) = 0 THEN <<>>
    ELSE IF Len(p) = 1 THEN <<p[1]>>
    ELSE <<p[1], "/">> \o join(Tail(p))

to_str(path) ==
    IF Len(path) > 0 /\ path[1] = "/" THEN <<"/">> \o join(Tail(path)) ELSE join(path)

def_link(def_span) ==
    to_str(strip_prefix_or(def_span.file_name, project_path)) \o
    <<":", ToString(def_span.line_start + 1),
      ":", ToString(def_span.column_start + 1),
      ":", ToString(def_span.line_end + 1),
      ":", ToString(def_span.column_end + 1)>>

get_link_self(an, span) ==
    IF an.goto_def.ok THEN Some(def_link(an.goto_def.v)) ELSE None

get_link(an, span) ==
    IF an.goto_def.ok
    THEN IF span = an.goto_def.v THEN None ELSE Some(def_link(an.goto_def.v))
    ELSE None

\* path_cache.entry(name).or_insert_with(|| canonicalize(name).unwrap()), then the
\* Span.  canon is the filesystem's answer, used on a cache miss only.
span_from_locs_nocache(cache, lo, hi, canon) ==
    LET name == lo.file
        file_path == IF canon.ok THEN canon.v ELSE <<>>
    IN  [ panicked |-> ~canon.ok,
          canonicalized |-> TRUE,
          cache |-> IF canon.ok THEN (name :> canon.v) @@ cache ELSE cache,
          span |-> MkSpan(file_path, lo.line - 1, lo.col, hi.line - 1, hi.col) ]

span_from_locs(cache, lo, hi, canon) ==
    LET name == lo.file
        hit == name \in DOMAIN cache
        panicked == ~hit /\ ~canon.ok
        cache2 == IF hit \/ panicked THEN cache ELSE (name :> canon.v) @@ cache
        file_path == IF panicked THEN <<>> ELSE cache2[name]
    IN  [ panicked |-> panicked,
          canonicalized |-> ~hit,
          cache |-> cache2,
          span |-> MkSpan(file_path, lo.line - 1, lo.col, hi.line - 1, hi.col) ]

\* .ok().and_then(|s| if s.is_empty() { None } else { Some(s) })
non_empty(r) == IF r.ok /\ Len(r.v) > 0 THEN Some(r.v) ELSE None

title_of_one_newline(ty, docs) ==
    CASE is_some(ty) /\ is_some(docs) -> Some(ty[1] \o <<"\n">> \o docs[1])
      [] is_some(ty) -> ty
      [] is_some(docs) -> docs
      [] OTHER -> None

title_of_needs_both(ty, docs) ==
    CASE is_some(ty) /\ is_some(docs) -> Some(ty[1] \o <<"\n", "\n">> \o docs[1])
      [] OTHER -> None

title_of(ty, docs) ==
    CASE is_some(ty) /\ is_some(docs) -> Some(ty[1] \o <<"\n", "\n">> \o docs[1])
      [] is_some(ty) -> ty
      [] is_some(docs) -> docs
      [] OTHER -> None

\* match self.analysis.id(span): the link falls back to search:<id>.
link_or_search_never(link, idr) == link

link_or_search(link, idr) ==
    IF idr.ok /\ is_none(link) THEN Some(<<"search:", ToString(idr.v)>>) ELSE link

css_class_of(idr) ==
    IF idr.ok THEN Some(<<" class_id class_id_", ToString(idr.v)>>) ELSE None

\* The Class::Ident arm with Some(t), after span_from_locs.
string_ident(b, an, text, span) ==
    LET ty == non_empty(an.show_type)
        docs == non_empty(an.docs)
        title == title_of(ty, docs)
        link == get_link(an, span)
        doc_link == ok(an.doc_url)
        src_link == ok(an.src_url)
        idr == an.id
    IN  write_span(b, "Ident", text, title, css_class_of(idr), None,
                   link_or_search(link, idr), doc_link, src_link, None)

\* The Class::Op if text == "*" arm with Some(t), after span_from_locs.
string_glob(b, an, text, span, lo) ==
    LET title == ok(an.show_type)
        location == Some(<<"location='", ToString(lo.line), ":", ToString(lo.col + 1), "''">>)
        css_class == Some(<<" glob">>)
    IN  write_span(b, "Op", text, title, css_class, None, None, None, None, location)

\* The arms of Highlighter::string that query nothing.
string_plain_wrapped(b, text, klass) ==
    write_span(b, klass, text, None, None, None, None, None, None, None)

string_plain(b, text, klass) ==
    IF klass = "None"
    THEN Append(b, <<Piece("raw", <<text>>)>>)
    ELSE write_span(b, klass, text, None, None, None, None, None, None, None)

\* Does this call reach span_from_locs?
Enriched(klass, text, tas) ==
    is_some(tas) /\ (klass = "Ident" \/ (klass = "Op" /\ text = "*"))

Init ==
    /\ pc = "running"
    /\ file_name \in Files
    /\ analysis \in Backends
    /\ buf = <<>>
    /\ path_cache = <<>>
    /\ spans = <<>>
    /\ canonCalls = [f \in Files |-> 0]
    /\ tok = NoTok

\* Highlighter::string on a token that needs no span.
StringPlain(text, klass, tas) ==
    /\ pc = "running"
    /\ Len(buf) < MaxTokens
    /\ ~Enriched(klass, text, tas)
    /\ buf' = string_plain(buf, text, klass)
    /\ tok' = [op |-> "string", klass |-> klass, text |-> text, tas |-> tas,
               enriched |-> FALSE]
    /\ UNCHANGED <<pc, file_name, analysis, path_cache, spans, canonCalls>>

\* Highlighter::string on an identifier or glob token with location metadata.
StringEnriched(text, klass, tas, canon) ==
    /\ pc = "running"
    /\ Len(buf) < MaxTokens
    /\ Enriched(klass, text, tas)
    /\ LET lo == lookup_char_pos(file_name, tas[1].lo)
           hi == lookup_char_pos(file_name, tas[1].hi)
           r == span_from_locs(path_cache, lo, hi, canon)
       IN  \* on a cache hit the filesystem is not asked: canon is unused
           /\ canon.ok \/ r.canonicalized
           /\ canonCalls' = IF r.canonicalized
                            THEN [canonCalls EXCEPT ![lo.file] = @ + 1]
                            ELSE canonCalls
           /\ path_cache' = r.cache
           /\ tok' = [op |-> "string", klass |-> klass, text |-> text, tas |-> tas,
                      enriched |-> TRUE, lo |-> lo, span |-> r.span,
                      canonicalized |-> r.canonicalized,
                      canon_failed |-> r.canonicalized /\ ~canon.ok]
           /\ IF r.panicked
              THEN /\ pc' = "panicked"
                   /\ buf' = buf
              ELSE /\ pc' = pc
                   /\ buf' = IF klass = "Ident"
                             THEN string_ident(buf, analysis, text, r.span)
                             ELSE string_glob(buf, analysis, text, r.span, lo)
    /\ UNCHANGED <<file_name, analysis, spans>>

\* write_source returns and highlight returns the buffer.
Finish ==
    /\ pc = "running"
    /\ pc' = "done"
    /\ tok' = NoTok
    /\ UNCHANGED <<file_name, analysis, buf, path_cache, spans, canonCalls>>

Next ==
    \/ \E k \in TokenKinds, tas \in TasValues : StringPlain(k.text, k.klass, tas)
    \/ \E k \in TokenKinds, tas \in TasValues, canon \in CanonResults(file_name) :
          StringEnriched(k.text, k.klass, tas, canon)
    \/ Finish

Spec == Init /\ [][Next]_vars

(***************************************************************************)
(* BasicHighlighter: the overlay pass of custom_highlight.                 *)
(***************************************************************************)
OverlayRanges == { [lo |-> 0, hi |-> 1], [lo |-> 0, hi |-> 3] }
OverlayClasses == {" hit", " sel"}
OverlayIds == {"m1", "m2"}

NoAnalysis ==
    [goto_def |-> Err, show_type |-> Err, docs |-> Err,
     doc_url |-> Err, src_url |-> Err, id |-> Err]

\* for s in &self.spans { if s.start_byte == lo && s.end_byte == hi { ... } }
overlay_scan(ss, lo, hi) ==
    LET scan[i \in 0..Len(ss)] ==
            IF i = 0 THEN [extra_class |-> None, id |-> None]
            ELSE IF ss[i].start_byte = lo /\ ss[i].end_byte = hi
            THEN [extra_class |-> Some(<<ss[i].klass>>), id |-> Some(<<ss[i].id>>)]
            ELSE scan[i - 1]
    IN  scan[Len(ss)]

basic_string(b, ss, text, klass, tas) ==
    LET m == IF is_some(tas) THEN overlay_scan(ss, tas[1].lo, tas[1].hi)
             ELSE [extra_class |-> None, id |-> None]
    IN  write_span(b, klass, text, None, m.extra_class, m.id, None, None, None, None)

InitBasic ==
    /\ pc = "register"
    /\ file_name \in Files
    /\ analysis = NoAnalysis
    /\ buf = <<>>
    /\ path_cache = <<>>
    /\ spans = <<>>
    /\ canonCalls = [f \in Files |-> 0]
    /\ tok = NoTok

\* BasicHighlighter::span
BasicSpan(start, end, klass, id) ==
    /\ pc = "register"
    /\ Len(spans) < MaxSpans
    /\ spans' = Append(spans, [start_byte |-> start, end_byte |-> end,
                               klass |-> klass, id |-> id])
    /\ UNCHANGED <<pc, file_name, analysis, buf, path_cache, canonCalls, tok>>

\* custom_highlight is called with the highlighter.
CustomHighlight ==
    /\ pc = "register"
    /\ pc' = "running"
    /\ UNCHANGED <<file_name, analysis, buf, path_cache, spans, canonCalls, tok>>

\* BasicHighlighter::string
BasicString(text, klass, tas) ==
    /\ pc = "running"
    /\ Len(buf) < MaxTokens
    /\ buf' = basic_string(buf, spans, text, klass, tas)
    /\ tok' = [op |-> "basic_string", klass |-> klass, text |-> text, tas |-> tas]
    /\ UNCHANGED <<pc, file_name, analysis, path_cache, spans, canonCalls>>

NextBasic ==
    \/ \E r \in OverlayRanges, k \in OverlayClasses, i \in OverlayIds :
          BasicSpan(r.lo, r.hi, k, i)
    \/ CustomHighlight
    \/ \E k \in TokenKinds, tas \in TasValues : BasicString(k.text, k.klass, tas)
    \/ Finish

SpecBasic == InitBasic /\ [][NextBasic]_vars

(***************************************************************************)
(* write_span on its own: every combination of optional arguments.         *)
(***************************************************************************)
Opt(v) == {None, Some(v)}

WriteSpanArgs ==
    [ op : {"write_span"},
      klass : Classes,
      text : {"x"},
      title : Opt(TypeText),
      extra_class : Opt(<<" glob">>),
      id : Opt(<<"m1">>),
      link : Opt(<<"search:", "7">>),
      doc_link : Opt(<<"http://doc/x">>),
      src_link : Opt(<<"http://src/x">>),
      extra : Opt(<<"location='1:1''">>) ]

InitWriteSpan ==
    /\ pc = "call"
    /\ file_name \in Files
    /\ analysis = NoAnalysis
    /\ buf = <<>>
    /\ path_cache = <<>>
    /\ spans = <<>>
    /\ canonCalls = [f \in Files |-> 0]
    /\ tok \in WriteSpanArgs

WriteSpan ==
    /\ pc = "call"
    /\ pc' = "returned"
    /\ buf' = write_span(buf, tok.klass, tok.text, tok.title, tok.extra_class, tok.id,
                         tok.link, tok.doc_link, tok.src_link, tok.extra)
    /\ UNCHANGED <<file_name, analysis, path_cache, spans, canonCalls, tok>>

NextWriteSpan == WriteSpan

SpecWriteSpan == InitWriteSpan /\ [][NextWriteSpan]_vars

(***************************************************************************)
(* Properties.                                                             *)
(***************************************************************************)
\* The element written by the last call, and its attributes.
LastElem == buf[Len(buf)]
Has(e, a) == \E i \in 1..Len(e) : e[i].a = a
Val(e, a) == e[CHOOSE i \in 1..Len(e) : e[i].a = a].v
Count(e, a) == Cardinality({i \in 1..Len(e) : e[i].a = a})

\* The last call was Highlighter::string on a token that reached span_from_locs
\* and returned.
EnrichedDone == tok.op = "string" /\ tok.enriched /\ pc = "running"
IdentDone == EnrichedDone /\ tok.klass = "Ident"
SelfDef == IdentDone /\ analysis.goto_def.ok /\ analysis.goto_def.v = tok.span
SearchLink(i) == <<"search:", ToString(i)>>

\* C1 (as stated): an identifier whose goto_def answer equals its own span is
\* emitted without a link attribute, whatever the other queries return.
C1_NoLinkOnSelfDef == SelfDef => ~Has(LastElem, "link")

\* C1 (amended): an identifier whose goto_def answer equals its own span never
\* links to that definition: it has no link attribute when id fails and the
\* link search:<id> when id succeeds.
C1_SelfDefLink ==
    SelfDef =>
        IF analysis.id.ok
        THEN Count(LastElem, "link") = 1 /\ Val(LastElem, "link") = SearchLink(analysis.id.v)
        ELSE ~Has(LastElem, "link")

C1_Witness == SelfDef /\ analysis.id.ok /\ Has(LastElem, "link")

\* The overlay entries whose range equals the byte span of the last token.
Matching ==
    IF tok.op = "basic_string" /\ is_some(tok.tas)
    THEN {i \in 1..Len(spans) :
             spans[i].start_byte = tok.tas[1].lo /\ spans[i].end_byte = tok.tas[1].hi}
    ELSE {}
FirstMatch == CHOOSE i \in Matching : \A j \in Matching : i <= j
StampedWith(i) ==
    /\ Val(LastElem, "extra_class") = <<spans[i].klass>>
    /\ Val(LastElem, "id") = <<spans[i].id>>

\* C2: in overlay mode a token whose byte span equals the range of more than one
\* registered overlay is emitted with the class suffix and id of the first
\* matching entry in registration order.
C2_FirstMatchWins == Cardinality(Matching) > 1 => StampedWith(FirstMatch)

\* C3: when canonicalization of the raw file name fails, the pass does not
\* abort: the span carries the raw file name as its path and the token is
\* emitted, so the pass can go on to the end of the stream.
C3_CanonFailureIsTotal ==
    (tok.op = "string" /\ tok.enriched /\ tok.canon_failed) =>
        /\ pc # "panicked"
        /\ tok.span.file_name = <<tok.lo.file>>
        /\ Len(buf) > 0
        /\ Val(LastElem, "text") = <<tok.text>>

\* C4: for identifier and glob tokens with location metadata an empty type or
\* docs answer counts as a failed query, so an empty title is never emitted.
C4_NoEmptyTitle ==
    EnrichedDone => (Has(LastElem, "title") => Val(LastElem, "title") # <<>>)

\* The bare wrapper: the class and the text, nothing else.
Bare(klass, text) == <<Piece("class", <<rustdoc_class(klass)>>), Piece("text", <<text>>)>>
NotIdentNotGlob ==
    /\ tok.op = "string"
    /\ tok.klass # "Ident"
    /\ ~(tok.klass = "Op" /\ tok.text = "*")

\* C5 (as stated): every token whose class is neither identifier nor the glob
\* operator, the none class included, is emitted as a span wrapper of its
\* class without enrichment attributes.
C5_WrapperForAllOthers == NotIdentNotGlob => LastElem = Bare(tok.klass, tok.text)

\* C5 (amended): every token whose class is neither identifier nor the glob
\* operator nor the none class is emitted as a span wrapper of its class
\* without enrichment attributes; a token of the none class is emitted as its
\* raw text without any wrapper.
C5_WrapperExceptNone ==
    NotIdentNotGlob =>
        IF tok.klass = "None"
        THEN LastElem = <<Piece("raw", <<tok.text>>)>>
        ELSE LastElem = Bare(tok.klass, tok.text)

C5_Witness == NotIdentNotGlob /\ tok.klass = "None" /\ ~Has(LastElem, "class")

\* C6: an identifier with location metadata whose id query succeeds with i and
\* whose goto_def fails is emitted with link = search:i, whatever show_type,
\* docs, doc_url and src_url return.
C6_SearchLink ==
    (IdentDone /\ analysis.id.ok /\ ~analysis.goto_def.ok) =>
        /\ Count(LastElem, "link") = 1
        /\ Val(LastElem, "link") = SearchLink(analysis.id.v)

C6_Witness ==
    /\ IdentDone /\ analysis.id.ok /\ ~analysis.goto_def.ok
    /\ analysis.show_type.ok /\ ~analysis.docs.ok
    /\ Val(LastElem, "link") = SearchLink(42)

\* The escaped form of a character, from the escaping table of the interface.
Escaped(c) ==
    IF c = ">" THEN "&gt;" ELSE IF c = "<" THEN "&lt;" ELSE IF c = "&" THEN "&amp;"
    ELSE IF c = "'" THEN "&#39;" ELSE IF c = "\"" THEN "&quot;"
    ELSE IF c = "\n" THEN "<br>" ELSE c
EscapedText(s) == [i \in 1..Len(s) |-> Escaped(s[i])]

\* The non-empty text of an answer, <<>> when it failed or is empty.
TextOf(r) == IF r.ok THEN r.v ELSE <<>>
TitleAsSpecified ==
    LET T == TextOf(analysis.show_type)
        D == TextOf(analysis.docs)
    IN  IF T # <<>> /\ D # <<>>
        THEN Has(LastElem, "title") /\
             Val(LastElem, "title") = EscapedText(T) \o <<"<br>", "<br>">> \o EscapedText(D)
        ELSE IF T # <<>> THEN Has(LastElem, "title") /\ Val(LastElem, "title") = EscapedText(T)
        ELSE IF D # <<>> THEN Has(LastElem, "title") /\ Val(LastElem, "title") = EscapedText(D)
        ELSE ~Has(LastElem, "title")

\* What each query other than goto_def contributes, each on its own.
OwnFields ==
    /\ Has(LastElem, "class") /\ Val(LastElem, "class") = <<"ident">>
    /\ Val(LastElem, "text") = <<tok.text>>
    /\ TitleAsSpecified
    /\ IF analysis.doc_url.ok
       THEN Has(LastElem, "doc_url") /\ Val(LastElem, "doc_url") = analysis.doc_url.v
       ELSE ~Has(LastElem, "doc_url")
    /\ IF analysis.src_url.ok
       THEN Has(LastElem, "src_url") /\ Val(LastElem, "src_url") = analysis.src_url.v
       ELSE ~Has(LastElem, "src_url")
    /\ IF analysis.id.ok
       THEN /\ Has(LastElem, "extra_class")
            /\ Val(LastElem, "extra_class") = <<" class_id class_id_", ToString(analysis.id.v)>>
       ELSE ~Has(LastElem, "extra_class")
    /\ (analysis.goto_def.ok /\ analysis.goto_def.v # tok.span) =>
           Has(LastElem, "link") /\ Val(LastElem, "link") = def_link(analysis.goto_def.v)

\* C7 (as stated): for every combination of failing queries the identifier is
\* emitted, a failed query removes its own field only (a failed goto_def the
\* link), and every field of a successful query is what it is when all succeed.
C7_FailuresIndependent ==
    IdentDone => OwnFields /\ (~analysis.goto_def.ok => ~Has(LastElem, "link"))

\* C7 (amended): for every combination of failing queries the identifier is
\* emitted; a failed show_type, docs, doc_url, src_url or id removes its own
\* field only and the fields of the successful queries are what they are when
\* all succeed, except for the link: a failed goto_def removes the link only
\* when id fails too, and leaves link = search:<id> when id succeeds.
C7_FailuresIndependentButLink ==
    IdentDone =>
        /\ OwnFields
        /\ ~analysis.goto_def.ok =>
              IF analysis.id.ok
              THEN Has(LastElem, "link") /\ Val(LastElem, "link") = SearchLink(analysis.id.v)
              ELSE ~Has(LastElem, "link")

C7_Witness ==
    /\ IdentDone
    /\ ~analysis.goto_def.ok /\ analysis.id.ok
    /\ ~analysis.show_type.ok /\ analysis.docs.ok /\ Len(analysis.docs.v) > 0
    /\ analysis.doc_url.ok /\ ~analysis.src_url.ok
    /\ Has(LastElem, "title") /\ Has(LastElem, "link")

\* The place of each part of the opening tag in the fixed order.
Rank(a) ==
    CASE a = "class" -> 1 [] a = "extra_class" -> 2 [] a = "src_link" -> 3
      [] a = "id" -> 4 [] a = "title" -> 5 [] a = "doc_url" -> 6
      [] a = "src_url" -> 7 [] a = "link" -> 8 [] a = "extra" -> 9
      [] a = "text" -> 10

\* C8: for every combination of present and absent optional arguments
\* write_span emits base class, extra-class suffix, clickable marker (exactly
\* when link or doc_url is present), id, title, doc_url, src_url, link and the
\* extra attribute in this order, an absent argument contributing nothing.
C8_AttributeOrder ==
    (tok.op = "write_span" /\ pc = "returned") =>
        LET e == LastElem
        IN  /\ \A i, j \in 1..Len(e) : i < j => Rank(e[i].a) < Rank(e[j].a)
            /\ Has(e, "class") /\ Has(e, "text")
            /\ Has(e, "extra_class") <=> is_some(tok.extra_class)
            /\ Has(e, "src_link") <=> (is_some(tok.link) \/ is_some(tok.doc_link))
            /\ Has(e, "id") <=> is_some(tok.id)
            /\ Has(e, "title") <=> is_some(tok.title)
            /\ Has(e, "doc_url") <=> is_some(tok.doc_link)
            /\ Has(e, "src_url") <=> is_some(tok.src_link)
            /\ Has(e, "link") <=> is_some(tok.link)
            /\ Has(e, "extra") <=> is_some(tok.extra)

C8_Witness ==
    /\ tok.op = "write_span" /\ pc = "returned"
    /\ is_some(tok.src_link) /\ is_some(tok.link) /\ is_none(tok.doc_link)
    /\ is_none(tok.id) /\ is_some(tok.extra)
    /\ Len(LastElem) = 6

\* C9: the title of an identifier with location metadata is the escaped form of
\* T, two newlines, D when the type text T and the docs text D are both
\* non-empty, of the one that is non-empty when only one is, and is absent when
\* neither is.
C9_TitleComposition == IdentDone => TitleAsSpecified

C9_Witness ==
    /\ IdentDone
    /\ analysis.show_type.ok /\ Len(analysis.show_type.v) > 0
    /\ analysis.docs.ok /\ Len(analysis.docs.v) > 0
    /\ Len(Val(LastElem, "title")) = Len(TypeText) + 2 + Len(DocsText)

\* C10: within one pass canonicalization runs at most once per raw file name:
\* the first span_from_locs call for a name stores its canonical path, a later
\* call returns the stored path without canonicalizing, and an entry of the
\* path cache is never changed or removed.
C10_PathCacheOnce ==
    [][ /\ \A n \in DOMAIN path_cache :
              n \in DOMAIN path_cache' /\ path_cache'[n] = path_cache[n]
        /\ \A f \in Files : canonCalls'[f] <= 1
        /\ (tok'.op = "string" /\ tok'.enriched) =>
              IF tok'.lo.file \in DOMAIN path_cache
              THEN /\ ~tok'.canonicalized
                   /\ tok'.span.file_name = path_cache[tok'.lo.file]
                   /\ canonCalls' = canonCalls
              ELSE /\ tok'.canonicalized
                   /\ canonCalls'[tok'.lo.file] = canonCalls[tok'.lo.file] + 1
                   /\ ~tok'.canon_failed =>
                         /\ tok'.lo.file \in DOMAIN path_cache'
                         /\ path_cache'[tok'.lo.file] = tok'.span.file_name
      ]_vars

C10_Witness ==
    /\ EnrichedDone /\ ~tok.canonicalized
    /\ canonCalls[tok.lo.file] = 1
    /\ Len(buf) >= 2

====
